---- MODULE Spec2Model ----
(***************************************************************************)
(* Model of windows_rtsp_scanner.py: one run of main().                    *)
(*                                                                         *)
(* The main thread walks check_ffmpeg, scan_network (first thread pool,    *)
(* one scan_port task per (host, port)), the test_rtsp_stream pool (one    *)
(* task per open port x path x credentials) and the report.  The tasks of  *)
(* a pool run concurrently with the main thread and with each other; each  *)
(* file-system access of test_rtsp_stream is a step of its own.            *)
(*                                                                         *)
(* Strings the code parses or rewrites (ports, paths, credentials) are     *)
(* sequences of one-character strings, so that split, strip, int, lower,   *)
(* startswith and replace are computed and not assumed.                    *)
(***************************************************************************)
EXTENDS Integers, Sequences, FiniteSets, TLC

VARIABLES
    cfg,                 \* the parsed command line (args), fixed for the run
    mpc,                 \* position of the main thread
    exc,                 \* exception travelling up the main thread
    outcome,             \* how the run ended
    scan_futures,        \* futures of scan_network, in submission order
    completed,           \* scan_network's completion counter
    open_ports,          \* scan_network's result list, then main's
    test_futures,        \* futures of main's second pool, in submission order
    fs,                  \* the snapshot files present in the TEMP directory
    successful_streams,  \* main's list of working URLs
    report               \* what main printed as results / saved

vars == <<cfg, mpc, exc, outcome, scan_futures, completed, open_ports,
          test_futures, fs, successful_streams, report>>

----------------------------------------------------------------------------
(* Bounds of the model *)

\* largest --workers value tried
MaxWorkers == 2

\* largest --retries value tried
MaxRetries == 2

\* max_workers of the second pool.  The code fixes it at 20 (line 197); the
\* model scales it down so that the runs of SpecPool fill the pool and queue
\* tasks behind it.
TestWorkers == 2

----------------------------------------------------------------------------
(* Python values and string functions *)

\* Python's None, distinct from every character sequence (also from "")
None == <<"<None>">>

RECURSIVE SplitAcc(_, _, _)
SplitAcc(s, cur, acc) ==
    IF s = <<>> THEN Append(acc, cur)
    ELSE IF Head(s) = "," THEN SplitAcc(Tail(s), <<>>, Append(acc, cur))
    ELSE SplitAcc(Tail(s), Append(cur, Head(s)), acc)

\* s.split(',')
Split(s) == SplitAcc(s, <<>>, <<>>)

RECURSIVE LStrip(_)
LStrip(s) == IF s # <<>> /\ Head(s) = " " THEN LStrip(Tail(s)) ELSE s

RECURSIVE RStrip(_)
RStrip(s) ==
    IF s # <<>> /\ s[Len(s)] = " " THEN RStrip(SubSeq(s, 1, Len(s) - 1)) ELSE s

\* s.strip()
Strip(s) == RStrip(LStrip(s))

Digits == <<"0", "1", "2", "3", "4", "5", "6", "7", "8", "9">>

DigitVal(c) == (CHOOSE i \in 1..10 : Digits[i] = c) - 1

RECURSIVE IntAcc(_, _)
IntAcc(s, n) == IF s = <<>> THEN n ELSE IntAcc(Tail(s), 10 * n + DigitVal(Head(s)))

\* int(s) of a string of decimal digits
ParseInt(s) == IntAcc(s, 0)

LowerChar(c) ==
    CASE c = "N" -> "n"
      [] c = "O" -> "o"
      [] c = "E" -> "e"
      [] OTHER -> c

\* s.lower(), over the letters of the model's credential strings
Lower(s) == [i \in 1..Len(s) |-> LowerChar(s[i])]

\* path.replace('/', '_')
ReplaceSlash(s) == [i \in 1..Len(s) |-> IF s[i] = "/" THEN "_" ELSE s[i]]

\* x in s, for a list s
InList(x, s) == \E i \in 1..Len(s) : s[i] = x

\* truth value of a string-or-None: None and "" are falsy
Truthy(s) == s # None /\ s # <<>>

----------------------------------------------------------------------------
(* The command lines tried *)

\* --ports values: "554" and "554, 8554"
Ports554 == <<"5", "5", "4">>

Ports554And8554 == <<"5", "5", "4", ",", " ", "8", "5", "5", "4">>

\* --paths values: "/live", "/live,cam" and "/a/b,/a_b"
PathsLive == <<"/", "l", "i", "v", "e">>

PathsLiveCam == <<"/", "l", "i", "v", "e", ",", "c", "a", "m">>

PathsSlashUnderscore == <<"/", "a", "/", "b", ",", "/", "a", "_", "b">>

\* --credentials values: "u:p", "none" and "u:p,NONE" (None: not given)
CredsUP == <<"u", ":", "p">>

CredsNone == <<"n", "o", "n", "e">>

CredsUPAndNONE == <<"u", ":", "p", ",", "N", "O", "N", "E">>

\* the (address, ports, paths, credentials) arguments tried: up to two connect
\* tasks and up to two candidates
CommandLines ==
    { <<"bad", Ports554, PathsLive, None>>,
      <<"10.0.0.1", Ports554, PathsLive, None>>,
      <<"10.0.0.0/30", Ports554, PathsLive, None>>,
      <<"10.0.0.1", Ports554And8554, PathsLive, None>>,
      <<"10.0.0.1", Ports554, PathsLive, CredsUP>>,
      <<"10.0.0.1", Ports554, PathsLive, CredsNone>>,
      <<"10.0.0.1", Ports554, PathsLiveCam, None>>,
      <<"10.0.0.1", Ports554, PathsSlashUnderscore, None>> }

\* arguments that give more candidates than the second pool has workers
PoolCommandLines ==
    { <<"10.0.0.1", Ports554, PathsLive, CredsUPAndNONE>>,
      <<"10.0.0.0/30", Ports554, PathsLiveCam, None>> }

\* list(network.hosts()) as strings, for the addresses tried
Hosts(address) ==
    CASE address = "10.0.0.1" -> <<"10.0.0.1">>
      [] address = "10.0.0.0/30" -> <<"10.0.0.1", "10.0.0.2">>
      [] OTHER -> <<>>

----------------------------------------------------------------------------
(* scan_network: the values computed before the pool *)

\* port_list = [int(port.strip()) for port in ports.split(',')]
PortList(ports) ==
    LET parts == Split(ports)
    IN  [i \in 1..Len(parts) |-> ParseInt(Strip(parts[i]))]

port_list == PortList(cfg.ports)

total_ips == Len(Hosts(cfg.address))

total_scans == total_ips * Len(port_list)

\* SubmittedPair with every task given the first port of the list
SubmittedPairFirstPort(i) ==
    [ip |-> Hosts(cfg.address)[((i - 1) \div Len(port_list)) + 1],
     port |-> port_list[1]]

\* the arguments of the i-th executor.submit(scan_port, ip_str, port)
SubmittedPair(i) ==
    [ip |-> Hosts(cfg.address)[((i - 1) \div Len(port_list)) + 1],
     port |-> port_list[((i - 1) % Len(port_list)) + 1]]

\* ZipLabel with the two lists walked from their ends
ZipLabelReversed(i) ==
    [ip |-> Hosts(cfg.address)[((total_scans - i) \div Len(port_list)) + 1],
     port |-> port_list[((total_scans - i) % Len(port_list)) + 1]]

\* the i-th (ip, port) of the two lists that zip() walks beside as_completed
ZipLabel(i) ==
    [ip |-> Hosts(cfg.address)[((i - 1) \div Len(port_list)) + 1],
     port |-> port_list[((i - 1) % Len(port_list)) + 1]]

----------------------------------------------------------------------------
(* main: paths, credentials and the candidates of the second pool *)

\* paths = [p.strip() for p in args.paths.split(',')]
Paths(arg) ==
    LET parts == Split(arg)
    IN  [i \in 1..Len(parts) |-> Strip(parts[i])]

paths == Paths(cfg.paths)

\* credentials_list, with None appended when None is not in it
CredentialsList(arg) ==
    LET parts == IF Truthy(arg) THEN Split(arg) ELSE <<>>
        given == [i \in 1..Len(parts) |-> Strip(parts[i])]
    IN  IF ~InList(None, given) THEN Append(given, None) ELSE given

credentials_list == CredentialsList(cfg.credentials)

\* the arguments of the j-th executor.submit(test_rtsp_stream, ...) for a list
\* of open ports: for result in open_ports, for path in paths, for creds
Candidate(ports, j) ==
    LET nc == Len(credentials_list)
        np == Len(paths)
        e  == ((j - 1) \div (np * nc)) + 1
        p  == (((j - 1) % (np * nc)) \div nc) + 1
        c  == ((j - 1) % nc) + 1
    IN  [ip |-> ports[e].ip, port |-> ports[e].port,
         path |-> paths[p], creds |-> credentials_list[c]]

NumCandidates(ports) == Len(ports) * Len(paths) * Len(credentials_list)

----------------------------------------------------------------------------
(* test_rtsp_stream: the values computed before the retry loop *)

\* does the URL carry "credentials@"
UsesCredentials(creds) == Truthy(creds) /\ Lower(creds) # <<"n", "o", "n", "e">>

\* path, with '/' put in front when it does not start with one
NormPath(path) ==
    IF path # <<>> /\ Head(path) = "/" THEN path ELSE <<"/">> \o path

\* rtsp_url = f"{transport}{ip}:{port}{path}"; auth is empty for "rtsp://"
RtspUrl(ip, port, path, creds) ==
    [auth |-> IF UsesCredentials(creds) THEN creds ELSE <<>>,
     ip |-> ip, port |-> port, path |-> NormPath(path)]

\* snapshot: the file name rtsp_test_{ip}_{port}_{path.replace('/', '_')}.png.
\* ip holds digits and dots and port digits only, so the name determines the
\* three parts and the triple stands for it.
Snapshot(ip, port, path) == <<ip, port, ReplaceSlash(NormPath(path))>>

UrlOf(f) == RtspUrl(f.ip, f.port, f.path, f.creds)

SnapshotOf(f) == Snapshot(f.ip, f.port, f.path)

\* os.path.exists(snapshot)
Exists(name) == \E file \in fs : file.name = name

\* os.path.getsize(snapshot) of an existing file
GetSize(name) == (CHOOSE file \in fs : file.name = name).size

\* the file system after ffmpeg -y wrote `size` bytes to name
Written(name, size, by) ==
    {file \in fs : file.name # name} \cup {[name |-> name, size |-> size, by |-> by]}

\* the file system after os.remove(name)
Removed(name) == {file \in fs : file.name # name}

----------------------------------------------------------------------------
(* The state after argument parsing *)

NoReport == [printed |-> FALSE]

\* the args of the runs with the given command lines
Configs(lines) ==
    {[ffmpeg |-> ffmpeg, address |-> line[1], ports |-> line[2],
      paths |-> line[3], credentials |-> line[4],
      retries |-> retries, workers |-> workers, output |-> output] :
        line \in lines, ffmpeg \in BOOLEAN, retries \in 1..MaxRetries,
        workers \in 1..MaxWorkers, output \in BOOLEAN}

\* main() has parsed its arguments and nothing else has happened
Started ==
    /\ mpc = "check_ffmpeg"
    /\ exc = "none"
    /\ outcome = "running"
    /\ scan_futures = <<>>
    /\ completed = 0
    /\ open_ports = <<>>
    /\ test_futures = <<>>
    /\ fs = {}
    /\ successful_streams = <<>>
    /\ report = NoReport

Init == cfg \in Configs(CommandLines) /\ Started

----------------------------------------------------------------------------
(* The two thread pools *)

Running(futures) == {i \in 1..Len(futures) : futures[i].st = "running"}

Queued(futures) == {i \in 1..Len(futures) : futures[i].st = "queued"}

AllDone(futures) == \A i \in 1..Len(futures) : futures[i].st = "done"

\* the futures as_completed can yield next: finished and not yet yielded
Yieldable(futures) ==
    {i \in 1..Len(futures) : futures[i].st = "done" /\ ~futures[i].yielded}

NumYielded(futures) == Cardinality({i \in 1..Len(futures) : futures[i].yielded})

\* CanStart without the limit on the number of threads
CanStartUnbounded(futures, i, max_workers) ==
    /\ i \in Queued(futures)
    /\ \A j \in Queued(futures) : i <= j

\* a worker of a pool of max_workers threads may take the next work item: the
\* queue is first-in first-out and at most max_workers threads exist
CanStart(futures, i, max_workers) ==
    /\ i \in Queued(futures)
    /\ \A j \in Queued(futures) : i <= j
    /\ Cardinality(Running(futures)) < max_workers

\* the pools exist while the main thread is inside their with-blocks; an
\* exception leaving a with-block waits in shutdown(wait=True)
InScanPool == mpc \in {"submit_scans", "process_scans"}

InTestPool == mpc \in {"submit_tests", "process_tests"}

----------------------------------------------------------------------------
(* main and scan_network, the main thread *)

\* CheckFfmpeg with the result of check_ffmpeg() ignored
CheckFfmpegIgnored ==
    /\ mpc = "check_ffmpeg"
    /\ mpc' = "scan_network"
    /\ UNCHANGED <<cfg, exc, outcome, scan_futures, completed, open_ports,
                   test_futures, fs, successful_streams, report>>

\* check_ffmpeg(): main returns when ffmpeg is not found
CheckFfmpeg ==
    /\ mpc = "check_ffmpeg"
    /\ IF cfg.ffmpeg
       THEN mpc' = "scan_network" /\ outcome' = outcome
       ELSE mpc' = "done" /\ outcome' = "ffmpeg_missing"
    /\ UNCHANGED <<cfg, exc, scan_futures, completed, open_ports, test_futures,
                   fs, successful_streams, report>>

\* ValidNetwork for an ip_network() that accepts every string
ValidNetworkAlways(address) == TRUE

\* ipaddress.ip_network(address, strict=False): is the string a network
ValidNetwork(address) == address # "bad"

\* scan_network up to the pool: an unparseable address prints "Invalid IP
\* address or network" and returns []
ScanNetworkEnter ==
    /\ mpc = "scan_network"
    /\ IF ValidNetwork(cfg.address)
       THEN mpc' = "submit_scans" /\ outcome' = outcome
       ELSE mpc' = "scan_returned" /\ outcome' = "invalid_range"
    /\ UNCHANGED <<cfg, exc, scan_futures, completed, open_ports,
                   test_futures, fs, successful_streams, report>>

NewScan(i) ==
    [ip |-> SubmittedPair(i).ip, port |-> SubmittedPair(i).port,
     st |-> "queued", res |-> FALSE, yielded |-> FALSE]

\* one futures.append(executor.submit(scan_port, ip_str, port))
SubmitScan ==
    /\ mpc = "submit_scans"
    /\ Len(scan_futures) < total_scans
    /\ scan_futures' = Append(scan_futures, NewScan(Len(scan_futures) + 1))
    /\ mpc' = IF Len(scan_futures) + 1 = total_scans
              THEN "process_scans" ELSE "submit_scans"
    /\ UNCHANGED <<cfg, exc, outcome, completed, open_ports, test_futures, fs,
                   successful_streams, report>>

\* ProcessScan leaving the result loop after the first future
ProcessScanFirstOnly(f) ==
    /\ mpc = "process_scans"
    /\ f \in Yieldable(scan_futures)
    /\ completed' = completed + 1
    /\ scan_futures' = [scan_futures EXCEPT ![f].yielded = TRUE]
    /\ open_ports' =
         IF scan_futures[f].res
         THEN Append(open_ports,
                     [ip |-> ZipLabel(completed + 1).ip,
                      port |-> ZipLabel(completed + 1).port,
                      open |-> TRUE])
         ELSE open_ports
    /\ mpc' = "scan_returned"
    /\ UNCHANGED <<cfg, exc, outcome, test_futures, fs, successful_streams, report>>

\* one round of the result loop: as_completed yields a finished future f, zip
\* pairs it with the next (ip, port) of its lists
ProcessScan(f) ==
    /\ mpc = "process_scans"
    /\ f \in Yieldable(scan_futures)
    /\ completed' = completed + 1
    /\ scan_futures' = [scan_futures EXCEPT ![f].yielded = TRUE]
    /\ open_ports' =
         IF scan_futures[f].res
         THEN Append(open_ports,
                     [ip |-> ZipLabel(completed + 1).ip,
                      port |-> ZipLabel(completed + 1).port,
                      open |-> TRUE])
         ELSE open_ports
    /\ mpc' = IF completed + 1 = total_scans THEN "scan_returned" ELSE mpc
    /\ UNCHANGED <<cfg, exc, outcome, test_futures, fs, successful_streams, report>>

\* main after scan_network returned: no open ports prints "No open ports
\* found" and ends the run without a report; outcome keeps the message of an
\* invalid address, printed before it
Gate ==
    /\ mpc = "scan_returned"
    /\ IF open_ports = <<>>
       THEN /\ mpc' = "done"
            /\ outcome' = IF outcome = "running" THEN "no_open_ports" ELSE outcome
       ELSE mpc' = "submit_tests" /\ outcome' = outcome
    /\ UNCHANGED <<cfg, exc, scan_futures, completed, open_ports, test_futures,
                   fs, successful_streams, report>>

----------------------------------------------------------------------------
(* scan_port, a task of the first pool *)

StartScan(i) ==
    /\ InScanPool \/ mpc = "unwind"
    /\ CanStart(scan_futures, i, cfg.workers)
    /\ scan_futures' = [scan_futures EXCEPT ![i].st = "running"]
    /\ UNCHANGED <<cfg, mpc, exc, outcome, completed, open_ports, test_futures,
                   fs, successful_streams, report>>

\* what one connect can do: connect_ex returns 0, returns an error number, or
\* the socket calls raise socket.error
ConnectOutcomes == {"connected", "errno", "socket.error"}

\* the value scan_port returns
ScanPortResult(o) ==
    CASE o = "connected" -> TRUE
      [] o = "errno" -> FALSE
      [] o = "socket.error" -> FALSE

FinishScan(i, o) ==
    /\ i \in Running(scan_futures)
    /\ scan_futures' = [scan_futures EXCEPT ![i].st = "done",
                                            ![i].res = ScanPortResult(o)]
    /\ UNCHANGED <<cfg, mpc, exc, outcome, completed, open_ports, test_futures,
                   fs, successful_streams, report>>

----------------------------------------------------------------------------
(* main, the second pool *)

\* a future of test_rtsp_stream.  pc is the task's position, attempt the loop
\* variable; tries counts the ffmpeg runs, last is what the latest run did and
\* ok_at remembers the first run that exited 0 and wrote a non-empty snapshot
\* (0: none so far)
NewTest(j) ==
    [ip |-> Candidate(open_ports, j).ip, port |-> Candidate(open_ports, j).port,
     path |-> Candidate(open_ports, j).path, creds |-> Candidate(open_ports, j).creds,
     st |-> "queued", pc |-> "start", attempt |-> 0, res |-> "none",
     yielded |-> FALSE, tries |-> 0, last |-> "none", ok_at |-> 0]

\* one futures.append(executor.submit(test_rtsp_stream, ...))
SubmitTest ==
    /\ mpc = "submit_tests"
    /\ Len(test_futures) < NumCandidates(open_ports)
    /\ test_futures' = Append(test_futures, NewTest(Len(test_futures) + 1))
    /\ mpc' = IF Len(test_futures) + 1 = NumCandidates(open_ports)
              THEN "process_tests" ELSE "submit_tests"
    /\ UNCHANGED <<cfg, exc, outcome, scan_futures, completed, open_ports, fs,
                   successful_streams, report>>

\* ProcessTest appending the URL of every future that did not raise
ProcessTestAppendAll(f) ==
    /\ mpc = "process_tests"
    /\ f \in Yieldable(test_futures)
    /\ test_futures' = [test_futures EXCEPT ![f].yielded = TRUE]
    /\ IF test_futures[f].res = "raised"
       THEN /\ exc' = "Exception"
            /\ mpc' = "unwind"
            /\ successful_streams' = successful_streams
       ELSE /\ exc' = exc
            /\ successful_streams' =
                 Append(successful_streams, UrlOf(test_futures[f]))
            /\ mpc' = IF NumYielded(test_futures) + 1 = Len(test_futures)
                      THEN "report" ELSE mpc
    /\ UNCHANGED <<cfg, outcome, scan_futures, completed, open_ports, fs, report>>

\* one round of the loop over as_completed(futures): future.result() raises
\* what the task raised, and the exception leaves the with-block
ProcessTest(f) ==
    /\ mpc = "process_tests"
    /\ f \in Yieldable(test_futures)
    /\ test_futures' = [test_futures EXCEPT ![f].yielded = TRUE]
    /\ IF test_futures[f].res = "raised"
       THEN /\ exc' = "Exception"
            /\ mpc' = "unwind"
            /\ successful_streams' = successful_streams
       ELSE /\ exc' = exc
            /\ successful_streams' =
                 IF test_futures[f].res = "true"
                 THEN Append(successful_streams, UrlOf(test_futures[f]))
                 ELSE successful_streams
            /\ mpc' = IF NumYielded(test_futures) + 1 = Len(test_futures)
                      THEN "report" ELSE mpc
    /\ UNCHANGED <<cfg, outcome, scan_futures, completed, open_ports, fs, report>>

\* the results are printed, and saved when --output is given
Report ==
    /\ mpc = "report"
    /\ report' = [printed |-> TRUE, saved |-> cfg.output,
                  open_ports |-> open_ports,
                  working_streams |-> successful_streams]
    /\ mpc' = "done"
    /\ outcome' = "reported"
    /\ UNCHANGED <<cfg, exc, scan_futures, completed, open_ports, test_futures,
                   fs, successful_streams>>

----------------------------------------------------------------------------
(* test_rtsp_stream, a task of the second pool *)

\* NextAttempt with range(retries + 1)
NextAttemptOneMore(t) ==
    IF t.attempt + 1 < cfg.retries + 1
    THEN [t EXCEPT !.attempt = t.attempt + 1, !.pc = "run"]
    ELSE [t EXCEPT !.attempt = t.attempt + 1, !.pc = "end", !.st = "done",
                   !.res = "false"]

\* the task's record after the loop body ended without return: the next
\* iteration, or return False after the last
NextAttempt(t) ==
    IF t.attempt + 1 < cfg.retries
    THEN [t EXCEPT !.attempt = t.attempt + 1, !.pc = "run"]
    ELSE [t EXCEPT !.attempt = t.attempt + 1, !.pc = "end", !.st = "done",
                   !.res = "false"]

Returned(t, value) == [t EXCEPT !.pc = "end", !.st = "done", !.res = value]

\* AfterTimeout with no except clause: TimeoutExpired leaves the function
AfterTimeoutUncaught(t) == Returned(t, "raised")

\* except subprocess.TimeoutExpired: the message is printed and the loop goes on
AfterTimeout(t) == NextAttempt(t)

StartTest(k) ==
    /\ InTestPool \/ mpc = "unwind"
    /\ CanStart(test_futures, k, TestWorkers)
    /\ test_futures' =
         [test_futures EXCEPT ![k] =
            IF cfg.retries > 0
            THEN [@ EXCEPT !.st = "running", !.pc = "run"]
            ELSE Returned(@, "false")]
    /\ UNCHANGED <<cfg, mpc, exc, outcome, scan_futures, completed, open_ports,
                   fs, successful_streams, report>>

\* what one subprocess.run of ffmpeg can do: exit 0 with a frame written, exit
\* 0 with an empty file written, exit non-zero with nothing written, or run
\* into the timeout with nothing written
ProbeOutcomes == {"frame", "empty", "error", "timeout"}

\* subprocess.run(command, timeout=timeout)
RunFfmpeg(k, o) ==
    LET t == test_futures[k]
        ran == [t EXCEPT !.tries = t.tries + 1,
                         !.last = o,
                         !.ok_at = IF o = "frame" /\ t.ok_at = 0
                                   THEN t.tries + 1 ELSE t.ok_at]
    IN  /\ k \in Running(test_futures)
        /\ t.pc = "run"
        /\ fs' = CASE o = "frame" -> Written(SnapshotOf(t), 1, k)
                   [] o = "empty" -> Written(SnapshotOf(t), 0, k)
                   [] OTHER -> fs
        /\ test_futures' =
             [test_futures EXCEPT ![k] =
                CASE o \in {"frame", "empty"} -> [ran EXCEPT !.pc = "exists"]
                  [] o = "error" -> [ran EXCEPT !.pc = "cleanup"]
                  [] o = "timeout" -> AfterTimeout(ran)]
        /\ UNCHANGED <<cfg, mpc, exc, outcome, scan_futures, completed,
                       open_ports, successful_streams, report>>

\* result.returncode == 0 and os.path.exists(snapshot) ...
CheckExists(k) ==
    LET t == test_futures[k]
    IN  /\ k \in Running(test_futures)
        /\ t.pc = "exists"
        /\ test_futures' =
             [test_futures EXCEPT ![k].pc =
                IF Exists(SnapshotOf(t)) THEN "getsize" ELSE "cleanup"]
        /\ UNCHANGED <<cfg, mpc, exc, outcome, scan_futures, completed,
                       open_ports, fs, successful_streams, report>>

\* ... and os.path.getsize(snapshot) > 0: return True, rtsp_url.  getsize of a
\* file that is gone raises FileNotFoundError, which nothing here catches
CheckSize(k) ==
    LET t == test_futures[k]
    IN  /\ k \in Running(test_futures)
        /\ t.pc = "getsize"
        /\ test_futures' =
             [test_futures EXCEPT ![k] =
                IF ~Exists(SnapshotOf(t)) THEN Returned(t, "raised")
                ELSE IF GetSize(SnapshotOf(t)) > 0 THEN Returned(t, "true")
                ELSE [t EXCEPT !.pc = "cleanup"]]
        /\ UNCHANGED <<cfg, mpc, exc, outcome, scan_futures, completed,
                       open_ports, fs, successful_streams, report>>

\* if os.path.exists(snapshot):
CleanupExists(k) ==
    LET t == test_futures[k]
    IN  /\ k \in Running(test_futures)
        /\ t.pc = "cleanup"
        /\ test_futures' =
             [test_futures EXCEPT ![k] =
                IF Exists(SnapshotOf(t)) THEN [t EXCEPT !.pc = "remove"]
                ELSE NextAttempt(t)]
        /\ UNCHANGED <<cfg, mpc, exc, outcome, scan_futures, completed,
                       open_ports, fs, successful_streams, report>>

\* os.remove(snapshot); it raises FileNotFoundError when the file is gone
RemoveSnapshot(k) ==
    LET t == test_futures[k]
    IN  /\ k \in Running(test_futures)
        /\ t.pc = "remove"
        /\ fs' = Removed(SnapshotOf(t))
        /\ test_futures' =
             [test_futures EXCEPT ![k] =
                IF Exists(SnapshotOf(t)) THEN NextAttempt(t)
                ELSE Returned(t, "raised")]
        /\ UNCHANGED <<cfg, mpc, exc, outcome, scan_futures, completed,
                       open_ports, successful_streams, report>>

----------------------------------------------------------------------------
(* KeyboardInterrupt and the handlers around main() *)

\* Ctrl-C raises KeyboardInterrupt in the main thread, wherever it is
Interrupt ==
    /\ mpc \notin {"done", "unwind"}
    /\ exc' = "KeyboardInterrupt"
    /\ IF InScanPool \/ InTestPool
       THEN mpc' = "unwind" /\ outcome' = outcome
       ELSE mpc' = "done" /\ outcome' = "interrupted"
    /\ UNCHANGED <<cfg, scan_futures, completed, open_ports, test_futures, fs,
                   successful_streams, report>>

\* the with-block's shutdown(wait=True) has joined the workers, which ran every
\* work item of the queue; the exception reaches the handlers of line 250-253
Unwound ==
    /\ mpc = "unwind"
    /\ AllDone(scan_futures)
    /\ AllDone(test_futures)
    /\ mpc' = "done"
    /\ outcome' = IF exc = "KeyboardInterrupt" THEN "interrupted" ELSE "error"
    /\ UNCHANGED <<cfg, exc, scan_futures, completed, open_ports, test_futures,
                   fs, successful_streams, report>>

----------------------------------------------------------------------------

Next ==
    \/ CheckFfmpeg
    \/ ScanNetworkEnter
    \/ SubmitScan
    \/ \E f \in DOMAIN scan_futures : ProcessScan(f)
    \/ Gate
    \/ \E i \in DOMAIN scan_futures : StartScan(i)
    \/ \E i \in DOMAIN scan_futures, o \in ConnectOutcomes : FinishScan(i, o)
    \/ SubmitTest
    \/ \E f \in DOMAIN test_futures : ProcessTest(f)
    \/ Report
    \/ \E k \in DOMAIN test_futures : StartTest(k)
    \/ \E k \in DOMAIN test_futures, o \in ProbeOutcomes : RunFfmpeg(k, o)
    \/ \E k \in DOMAIN test_futures : CheckExists(k)
    \/ \E k \in DOMAIN test_futures : CheckSize(k)
    \/ \E k \in DOMAIN test_futures : CleanupExists(k)
    \/ \E k \in DOMAIN test_futures : RemoveSnapshot(k)
    \/ Interrupt
    \/ Unwound

Spec == Init /\ [][Next]_vars

\* test_rtsp_stream called alone: the runs of main with one host, one port, one
\* path and no credentials, where the second pool holds a single task
InitVerifier ==
    /\ cfg \in {c \in Configs({<<"10.0.0.1", Ports554, PathsLive, None>>}) : c.ffmpeg}
    /\ Started

SpecVerifier == InitVerifier /\ [][Next]_vars

\* the runs that fill the pools: more candidates than workers of the second
\* pool, each verified with a single attempt
InitPool ==
    /\ cfg \in {c \in Configs(PoolCommandLines) : c.ffmpeg /\ c.retries = 1}
    /\ Started

SpecPool == InitPool /\ [][Next]_vars

----------------------------------------------------------------------------
(* Properties *)

\* the (ip, port) of a record
Pair(r) == <<r.ip, r.port>>

\* the pairs whose own connect returned open
Connected == {Pair(scan_futures[i]) : i \in {j \in DOMAIN scan_futures :
                  scan_futures[j].st = "done" /\ scan_futures[j].res}}

\* the pairs of the list scan_network builds
Listed == {Pair(open_ports[i]) : i \in DOMAIN open_ports}

\* C1: when scan_network returns, its list holds exactly the (host, port)
\* pairs whose own connect returned open, each once, whatever the completion
\* order was
C1_OpenListExact ==
    mpc = "scan_returned" =>
        /\ Listed = Connected
        /\ \A i, j \in DOMAIN open_ports :
             Pair(open_ports[i]) = Pair(open_ports[j]) => i = j

\* C2: ffmpeg is run against a (host, port) only if a connect to that same
\* (host, port) succeeded in the port scan
C2_ProbedOnlyIfConnected ==
    \A k \in DOMAIN test_futures :
        test_futures[k].tries > 0 => Pair(test_futures[k]) \in Connected

\* C3: never more than --workers scan_port tasks and never more than the
\* second pool's max_workers test_rtsp_stream tasks are running; a task that
\* is still queued while the pool is full is not running
C3_WorkerLimits ==
    /\ Cardinality(Running(scan_futures)) <= cfg.workers
    /\ Cardinality(Running(test_futures)) <= TestWorkers

\* the second pool is full, a task waits behind it, and more tasks run than
\* the --workers of the first pool allows
C3_Witness ==
    /\ Cardinality(Running(test_futures)) = TestWorkers
    /\ Queued(test_futures) # {}
    /\ cfg.workers < TestWorkers

\* C4: test_rtsp_stream runs ffmpeg at most retries times; no run follows the
\* first run that exits 0 with a frame, and the call then returns True (so a
\* probe failing on attempts 1..R-1 and succeeding on attempt R gives True
\* after exactly R runs); with no such run the call returns False after
\* exactly retries runs
C4_RetryLoop ==
    \A k \in DOMAIN test_futures :
        LET t == test_futures[k]
        IN  /\ t.tries <= cfg.retries
            /\ t.ok_at # 0 => t.tries = t.ok_at
            /\ t.st = "done" =>
                 IF t.ok_at # 0
                 THEN t.res = "true"
                 ELSE t.res = "false" /\ t.tries = cfg.retries

\* the probe failed on attempt 1 and succeeded on attempt R = 2
C4_Witness ==
    \E k \in DOMAIN test_futures :
        /\ cfg.retries = 2
        /\ test_futures[k].st = "done"
        /\ test_futures[k].ok_at = 2
        /\ test_futures[k].tries = 2
        /\ test_futures[k].res = "true"

\* C5: when test_rtsp_stream has returned, no snapshot file written by its
\* ffmpeg runs is left at the snapshot path
C5_ArtifactRemoved ==
    \A k \in DOMAIN test_futures :
        test_futures[k].st = "done" =>
            ~\E file \in fs : file.name = SnapshotOf(test_futures[k]) /\ file.by = k

\* C6: two running tasks for distinct candidates (their URLs differ in
\* endpoint, normalized path or credentials) use different snapshot paths
C6_DistinctArtifacts ==
    \A k, l \in Running(test_futures) :
        UrlOf(test_futures[k]) # UrlOf(test_futures[l]) =>
            SnapshotOf(test_futures[k]) # SnapshotOf(test_futures[l])

\* C7: no two submitted candidates for the same endpoint and path are both
\* no-credentials candidates
C7_NoCredentialsOnce ==
    \A k, l \in DOMAIN test_futures :
        /\ Pair(test_futures[k]) = Pair(test_futures[l])
        /\ NormPath(test_futures[k].path) = NormPath(test_futures[l].path)
        /\ ~UsesCredentials(test_futures[k].creds)
        /\ ~UsesCredentials(test_futures[l].creds)
        => k = l

\* C8: a failing connect or probe attempt ends as a boolean result of its
\* task: no task ends with an exception and none reaches the main thread
C8_FailuresContained ==
    /\ \A k \in DOMAIN test_futures : test_futures[k].res # "raised"
    /\ exc # "Exception"
    /\ outcome # "error"

\* C9: after a KeyboardInterrupt no queued task starts running
C9_NoStartAfterInterrupt ==
    [][exc = "KeyboardInterrupt" =>
         /\ \A i \in DOMAIN scan_futures :
              scan_futures[i].st = "queued" => scan_futures'[i].st = "queued"
         /\ \A k \in DOMAIN test_futures :
              test_futures[k].st = "queued" => test_futures'[k].st = "queued"]_vars

\* C10: in a run where ffmpeg is missing no scan_port and no test_rtsp_stream
\* task is ever submitted, and main returns from the check
C10_NoScanWithoutFfmpeg ==
    ~cfg.ffmpeg =>
        /\ scan_futures = <<>>
        /\ test_futures = <<>>
        /\ mpc \in {"check_ffmpeg", "done"}
        /\ mpc = "done" => outcome \in {"ffmpeg_missing", "interrupted"}

\* main has returned from the failed check
C10_Witness == ~cfg.ffmpeg /\ mpc = "done" /\ outcome = "ffmpeg_missing"

AllConnectsFailed ==
    /\ mpc = "done" /\ exc = "none"
    /\ scan_futures # <<>>
    /\ Len(scan_futures) = total_scans
    /\ \A i \in DOMAIN scan_futures :
         scan_futures[i].st = "done" /\ ~scan_futures[i].res

\* C12: a run in which every connect fails ends with a report whose
\* open_ports and working_streams are empty
C12_EmptyReport ==
    AllConnectsFailed =>
        /\ open_ports = <<>>
        /\ test_futures = <<>>
        /\ report.printed
        /\ report.open_ports = <<>>
        /\ report.working_streams = <<>>

\* C13: a test_rtsp_stream task is submitted only after every scan_port task
\* was submitted and has finished, so tasks of the two pools never run at
\* the same time
C13_StagesSequential ==
    test_futures # <<>> =>
        /\ Len(scan_futures) = total_scans
        /\ AllDone(scan_futures)
        /\ completed = total_scans

\* a verification runs, after two connects
C13_Witness ==
    /\ Running(test_futures) # {}
    /\ Len(scan_futures) = 2

\* C14: a timeout of one ffmpeg run is one of the retries runs: right after it
\* the loop variable has advanced by one, the next run is due exactly when
\* fewer than retries runs were made, otherwise the call has returned False;
\* whatever the runs do, there are never more than retries of them and the
\* timeout never leaves test_rtsp_stream as an exception
C14_TimeoutConsumesRetry ==
    \A k \in DOMAIN test_futures :
        LET t == test_futures[k]
        IN  /\ t.tries <= cfg.retries
            /\ t.last = "timeout" =>
                 /\ t.attempt = t.tries
                 /\ t.res # "raised"
                 /\ IF t.tries < cfg.retries
                    THEN t.st = "running" /\ t.pc = "run"
                    ELSE t.st = "done" /\ t.res = "false"

\* the first of two attempts timed out and the second is due
C14_Witness ==
    \E k \in DOMAIN test_futures :
        /\ cfg.retries = 2
        /\ test_futures[k].last = "timeout"
        /\ test_futures[k].tries = 1
        /\ test_futures[k].pc = "run"

\* C15: every verification is Pending (queued), Attempting(n) for an n up to
\* retries, Succeeded (returned True) or Exhausted (returned False after
\* retries runs), and Succeeded and Exhausted are its only ends
C15_VerificationStates ==
    \A k \in DOMAIN test_futures :
        LET t == test_futures[k]
        IN  \/ t.st = "queued" /\ t.tries = 0
            \/ t.st = "running" /\ t.attempt < cfg.retries
            \/ t.st = "done" /\ t.res = "true"
            \/ t.st = "done" /\ t.res = "false" /\ t.tries = cfg.retries

\* the candidates whose test_rtsp_stream returned True
Successes == {k \in DOMAIN test_futures : test_futures[k].res = "true"}

\* how often x occurs in the list s
Count(x, s) == Cardinality({i \in DOMAIN s : s[i] = x})

\* C16: once the second pool has drained, successful_streams holds one entry
\* per candidate whose verification returned True, that candidate's URL, and
\* nothing else; the report carries that list
C16_WorkingStreamsExact ==
    (mpc = "report" \/ outcome = "reported") =>
        /\ Len(successful_streams) = Cardinality(Successes)
        /\ \A k \in DOMAIN test_futures :
             Count(UrlOf(test_futures[k]), successful_streams) =
               Cardinality({l \in Successes :
                              UrlOf(test_futures[l]) = UrlOf(test_futures[k])})
        /\ outcome = "reported" => report.working_streams = successful_streams

\* one open endpoint, paths /live and cam, no credentials, only /live verified:
\* the report holds one URL, and it ends in /live
C16_Witness ==
    /\ outcome = "reported"
    /\ cfg.paths = PathsLiveCam /\ cfg.credentials = None
    /\ Len(test_futures) = 2
    /\ Len(report.working_streams) = 1
    /\ report.working_streams[1].path = PathsLive

\* C17: a finished verification returned True exactly when its own last
\* ffmpeg run exited 0 and wrote a non-empty snapshot
C17_OwnProbeDecides ==
    \A k \in DOMAIN test_futures :
        test_futures[k].st = "done" =>
            (test_futures[k].res = "true" <=> test_futures[k].last = "frame")

\* the (host, port) combinations of the run
Combinations ==
    {<<Hosts(cfg.address)[h], port_list[p]>> :
        h \in DOMAIN Hosts(cfg.address), p \in DOMAIN port_list}

SubmissionIndex(r) ==
    CHOOSE n \in 1..total_scans : Pair(SubmittedPair(n)) = Pair(r)

\* C19: the list of scan_network has one entry per yielded future whose
\* connect returned open, and its (ip, port) labels are in submission order
\* without repetition, whichever connects they came from
C19_CountAndOrder ==
    /\ Len(open_ports) =
         Cardinality({i \in DOMAIN scan_futures :
                        scan_futures[i].yielded /\ scan_futures[i].res})
    /\ mpc = "scan_returned" => Len(open_ports) = Cardinality(Connected)
    /\ \A i, j \in DOMAIN open_ports :
         i < j => SubmissionIndex(open_ports[i]) < SubmissionIndex(open_ports[j])

\* scan_network returns one label, and it is not the pair that connected
C19_Witness ==
    /\ mpc = "scan_returned"
    /\ Len(open_ports) = 1
    /\ Listed # Connected

====
